---- MODULE Spec2Model ----
(***************************************************************************)
(* Model of productionsystem/webapp/resources/static/index.js: the         *)
(* browser-side handlers of the request console.  One action is one        *)
(* handler run to completion on the UI thread (a DOM event with the        *)
(* handlers it bubbles through, or one network callback).                  *)
(*                                                                         *)
(* Rows are the <tr> elements of "#tableBody tbody" in document order,     *)
(* numbered from 0 as jQuery's index() numbers them; data[k + 1] is the    *)
(* request id held by row k.  The rows of expanded child tables are not    *)
(* modelled as selectable rows.                                            *)
(***************************************************************************)
EXTENDS Integers, Sequences, FiniteSets, TLC

\* ---- bounds of the model
MaxRows == 3        \* rows of the largest table the server returns
MaxFetches == 2     \* GET /requests calls issued
MaxRequests == 2    \* PUT/DELETE requests issued in all batches together
MaxSubFetches == 2  \* GET /requests/{id}/parametricjobs calls issued
MaxPuts == 1        \* reschedule PUTs issued
MaxJobs == 3        \* largest job count of a parametric job row
MaxDialogs == 2     \* confirmation dialogs opened by the Delete key

VARIABLES
    data,           \* the rows of the grid: sequence of request ids
    table_pending,  \* GET /requests calls in flight
    table_fetches,  \* GET /requests calls issued so far
    timer_handler,  \* first argument given to setInterval
    selected,       \* indices of the rows carrying class "selected"
    last_selected,  \* var last_selected
    menu_shown,     \* #contextmenu is displayed
    menu_ids,       \* $("#contextmenu").prop("ids")
    disabled,       \* menu entries carrying class "disabled"
    requests,       \* PUT/DELETE requests issued by the batch actions
    batches,        \* one record per $.when(...) join
    reloads,        \* calls of DataTable().ajax.reload()
    banner,         \* content of #notification
    globals,        \* free identifiers of the script the page's global scope binds
    child_shown,    \* rows whose child row is shown (row.child.isShown())
    icon_minus,     \* rows whose control carries glyphicon-minus-sign
    subfetches,     \* GET /requests/{id}/parametricjobs calls issued
    subgrid,        \* per request id, the grid of the table subtable-{id}
    puts,           \* reschedule PUTs issued
    reload_pending, \* grid reloads whose answer has not arrived
    dialogs,        \* the bootbox confirmations opened by the Delete key
    render_row,     \* the job row handed to the column renderers
    cells,          \* what the column renderers returned for it
    event           \* the handler that ran last: its event object, and the
                    \* overlay it opened

vars == <<data, table_pending, table_fetches, timer_handler, selected,
          last_selected, menu_shown, menu_ids, disabled, requests,
          batches, reloads, banner, globals, child_shown, icon_minus,
          subfetches, subgrid, puts, reload_pending, dialogs, render_row,
          cells, event>>

tableVars == <<data, table_pending, table_fetches>>
timerVars == <<timer_handler>>
selVars == <<selected, last_selected>>
menuVars == <<menu_shown, menu_ids, disabled>>
batchVars == <<requests, batches, reloads, banner, reload_pending>>
subVars == <<globals, child_shown, icon_minus, subfetches, subgrid, puts>>
keyVars == <<dialogs>>
renderVars == <<render_row, cells>>

\* ---- helpers
NoRow == 0 - 1
Min(a, b) == IF a < b THEN a ELSE b
Max(a, b) == IF a < b THEN b ELSE a
Range(s) == {s[k] : k \in DOMAIN s}
NoBox == [type |-> "none", ids |-> <<>>]
NoBanner == [status |-> "", count |-> 0, level |-> ""]
Ev(t, r, c, s) == [type |-> t, row |-> r, ctrl |-> c, shift |-> s, fancybox |-> NoBox]
Rows == 0 .. (Len(data) - 1)

\* GET /requests: the server answers with n rows of distinct request ids.
TableResponses == {[k \in 1 .. n |-> n + 1 - k] : n \in 0 .. MaxRows}
RequestIds == 1 .. MaxRows

\* the free identifiers the script reads without declaring them (line 76)
FreeIdentifiers == {"parametricjob"}

\* no job row is being rendered / no cell has been rendered
NoJob == [id |-> 0, request_id |-> 0, status |-> "", reschedule |-> FALSE,
          njobs |-> 0, num_submitted |-> 0, num_running |-> 0,
          num_completed |-> 0, num_failed |-> 0]
NoGlyph == [glyph |-> FALSE, macroid |-> 0, requestid |-> 0]
NoProgress == [striped |-> FALSE, segments |-> <<>>]
NoCells == [status |-> "", reschedule |-> NoGlyph, progress |-> NoProgress]

\* a table element on which DataTable() has not run
NoGrid == [data |-> <<>>, columns |-> <<>>, initialized |-> FALSE]

\* ---- startup: refresh_table and the timer (lines 33-58, 106-108)
\* refresh_table has no return statement: a call evaluates to undefined.
RefreshTableReturn == "undefined"

\* (variant: the function itself is handed to setInterval)
TimerHandlerFunction == "refresh_table"

\* setInterval(refresh_table(), 300000): the argument is the call's value.
TimerHandler == RefreshTableReturn

\* What the timer runs when a period elapses: a function is called, any
\* other value is converted to a string and evaluated as a script.
TickFetches(handler) == IF handler = "refresh_table" THEN 1 ELSE 0

\* the state when the document-ready function has run
Ready ==
    /\ data = <<>>
    /\ table_pending = 1
    /\ table_fetches = 1
    /\ timer_handler = TimerHandler
    /\ selected = {}
    /\ last_selected = 0
    /\ menu_shown = FALSE
    /\ menu_ids = <<>>
    /\ disabled = {}
    /\ requests = <<>>
    /\ batches = <<>>
    /\ reloads = 0
    /\ banner = NoBanner
    /\ globals \in SUBSET FreeIdentifiers
    /\ child_shown = {}
    /\ icon_minus = {}
    /\ subfetches = <<>>
    /\ subgrid = [id \in RequestIds |-> NoGrid]
    /\ puts = <<>>
    /\ reload_pending = 0
    /\ dialogs = <<>>
    /\ cells = NoCells
    /\ event = Ev("ready", NoRow, FALSE, FALSE)

Init ==
    /\ Ready
    /\ render_row = NoJob

TimerTick ==
    /\ table_fetches + TickFetches(timer_handler) <= MaxFetches
    /\ table_fetches' = table_fetches + TickFetches(timer_handler)
    /\ table_pending' = table_pending + TickFetches(timer_handler)
    /\ event' = Ev("tick", NoRow, FALSE, FALSE)
    /\ UNCHANGED <<keyVars, renderVars, data, timer_handler, selVars, menuVars, batchVars,
                   subVars>>

\* When the grid is redrawn its <tr> elements are replaced: the rows a
\* confirmation dialog's callback still holds are no longer rows of the grid.
Detach(ds) ==
    [d \in DOMAIN ds |->
        IF ds[d].state = "open"
        THEN [ds[d] EXCEPT !.rows = [k \in DOMAIN ds[d].rows |->
                                        [ds[d].rows[k] EXCEPT !.attached = FALSE]]]
        ELSE ds[d]]

\* success callback of refresh_table: the grid is rebuilt (bDestroy) from the
\* response, so the new rows carry no "selected" class.
TableSuccess ==
    /\ table_pending > 0
    /\ \E response \in TableResponses : data' = response
    /\ table_pending' = table_pending - 1
    /\ selected' = {}
    /\ child_shown' = {}
    /\ icon_minus' = {}
    /\ dialogs' = Detach(dialogs)
    /\ event' = Ev("table_success", NoRow, FALSE, FALSE)
    /\ UNCHANGED <<renderVars, table_fetches, timerVars, last_selected, menuVars,
                   batchVars, globals, subfetches, subgrid, puts>>

\* error callback of refresh_table: a console warning only.
TableError ==
    /\ table_pending > 0
    /\ table_pending' = table_pending - 1
    /\ event' = Ev("table_error", NoRow, FALSE, FALSE)
    /\ UNCHANGED <<keyVars, renderVars, data, table_fetches, timerVars, selVars, menuVars,
                   batchVars,
                   subVars>>

\* ---- table row selection (lines 177-194)
\* jQuery's slice(start, end) on n elements, as Array.prototype.slice: a
\* negative index counts from the end.
Slice(n, start, end) ==
    LET s == IF start < 0 THEN Max(n + start, 0) ELSE Min(start, n)
        e == IF end < 0 THEN Max(n + end, 0) ELSE Min(end, n)
    IN {k \in 0 .. (n - 1) : s <= k /\ k < e}

\* (variant: the class is added and never removed)
ToggleClassAdds(sel, k) == sel \cup {k}

ToggleClass(sel, k) == IF k \in sel THEN sel \ {k} ELSE sel \cup {k}

\* (variant: a plain click does not clear the markers)
ClickMarkedNoClear(sel, last, n, new, ctrl, shift) ==
    IF shift
    THEN LET length == n - 1
             below == IF new < last
                      THEN Slice(n, new - length, last - length - 1)
                      ELSE {}
         IN sel \cup below \cup Slice(n, last + 1, new)
    ELSE sel

\* (variant: the first branch tests the shift key alone)
ClickMarkedCtrlClears(sel, last, n, new, ctrl, shift) ==
    IF ~shift
    THEN {}
    ELSE ClickMarkedNoClear(sel, last, n, new, ctrl, shift)

\* the rows marked before $(this).toggleClass("selected") runs
ClickMarked(sel, last, n, new, ctrl, shift) ==
    IF ~ctrl /\ ~shift
    THEN {}
    ELSE IF shift
         THEN LET length == n - 1
                  below == IF new < last
                           THEN Slice(n, new - length, last - length - 1)
                           ELSE {}
              IN sel \cup below \cup Slice(n, last + 1, new)
         ELSE sel

ClickSelected(sel, last, n, new, ctrl, shift) ==
    ToggleClass(ClickMarked(sel, last, n, new, ctrl, shift), new)

\* click on a row; the event then bubbles to html, whose handler hides the menu
RowClick(i, ctrl, shift) ==
    /\ i \in Rows
    /\ selected' = ClickSelected(selected, last_selected, Len(data), i, ctrl, shift)
    /\ last_selected' = i
    /\ menu_shown' = FALSE
    /\ event' = Ev("click", i, ctrl, shift)
    /\ UNCHANGED <<keyVars, renderVars, tableVars, timerVars, menu_ids, disabled, batchVars,
                   subVars>>

\* ---- context menu (lines 199-232)
\* (variant: the clicked row always becomes the sole selection)
ContextSelectedAlways(sel, r) == {r}

\* a row that is not selected becomes the sole selection

ContextSelected(sel, r) == IF r \notin sel THEN {r} ELSE sel

\* (variant: the entries are disabled from three selected rows on)
ContextDisabledAboveTwo(dis, sel) ==
    IF Cardinality(sel) > 2
    THEN dis \cup {"contextInfo", "contextCopy"}
    ELSE {}

\* (variant: the else branch does not remove the class)
ContextDisabledSticky(dis, sel) ==
    IF Cardinality(sel) > 1
    THEN dis \cup {"contextInfo", "contextCopy"}
    ELSE dis

\* more than one row selected: Info and Copy get class "disabled"; otherwise
\* every disabled entry of the menu loses it
ContextDisabled(dis, sel) ==
    IF Cardinality(sel) > 1
    THEN dis \cup {"contextInfo", "contextCopy"}
    ELSE {}

\* selected.each(... ids.push(rowid) ...): the ids of the selected rows in
\* document order
SelectedIds(d, sel) ==
    LET F[k \in 0 .. Len(d)] ==
            IF k = 0 THEN <<>>
            ELSE IF (k - 1) \in sel THEN Append(F[k - 1], d[k]) ELSE F[k - 1]
    IN F[Len(d)]

ContextMenu(r) ==
    /\ r \in Rows
    /\ selected' = ContextSelected(selected, r)
    /\ disabled' = ContextDisabled(disabled, selected')
    /\ menu_ids' = SelectedIds(data, selected')
    /\ menu_shown' = TRUE
    /\ event' = Ev("contextmenu", r, FALSE, FALSE)
    /\ UNCHANGED <<keyVars, renderVars, tableVars, timerVars, last_selected, batchVars,
                   subVars>>

\* a click elsewhere in the document (with the menu hidden it changes nothing)
HtmlClick ==
    /\ menu_shown
    /\ menu_shown' = FALSE
    /\ event' = Ev("html_click", NoRow, FALSE, FALSE)
    /\ UNCHANGED <<keyVars, renderVars, tableVars, timerVars, selVars, menu_ids, disabled,
                   batchVars,
                   subVars>>

\* ---- context buttons (lines 238-288)
\* A click on a menu entry bubbles to html, whose handler hides the menu,
\* unless the entry's handler returns false (which stops the propagation).
ContextInfo ==
    /\ menu_shown
    /\ IF "contextInfo" \in disabled
       THEN /\ event' = Ev("info", NoRow, FALSE, FALSE)
            /\ UNCHANGED menu_shown
       ELSE /\ event' = [Ev("info", NoRow, FALSE, FALSE)
                            EXCEPT !.fancybox = [type |-> "ajax", ids |-> menu_ids]]
            /\ menu_shown' = FALSE
    /\ UNCHANGED <<keyVars, renderVars, tableVars, timerVars, selVars, menu_ids, disabled, batchVars,
                   subVars>>

ContextEdit ==
    /\ menu_shown
    /\ IF "contextEdit" \in disabled
       THEN /\ event' = Ev("edit", NoRow, FALSE, FALSE)
            /\ UNCHANGED menu_shown
       ELSE /\ event' = [Ev("edit", NoRow, FALSE, FALSE)
                            EXCEPT !.fancybox = [type |-> "iframe", ids |-> <<>>]]
            /\ menu_shown' = FALSE
    /\ UNCHANGED <<keyVars, renderVars, tableVars, timerVars, selVars, menu_ids, disabled, batchVars,
                   subVars>>

ContextCopy ==
    /\ menu_shown
    /\ menu_shown' = ("contextCopy" \in disabled)
    /\ event' = Ev("copy", NoRow, FALSE, FALSE)
    /\ UNCHANGED <<keyVars, renderVars, tableVars, timerVars, selVars, menu_ids, disabled,
                   batchVars,
                   subVars>>

\* (variant: the loop stops one id short)
IssueRequestsSkipLast(ids, method, body, b) ==
    [k \in 1 .. (Len(ids) - 1) |->
        [batch |-> b, id |-> ids[k], method |-> method, body |-> body,
         state |-> "pending"]]

\* for (var i in ids) ajax_calls.push($.ajax(...)): the requests of batch b
IssueRequests(ids, method, body, b) ==
    [k \in 1 .. Len(ids) |->
        [batch |-> b, id |-> ids[k], method |-> method, body |-> body,
         state |-> "pending"]]

\* the calls handed to $.when by batch b
CallsOf(reqs, b) == SelectSeq(reqs, LAMBDA r : r.batch = b)

\* (variant: the aggregate resolves with the first success)
WhenAny(calls) ==
    IF \E k \in DOMAIN calls : calls[k].state = "error" THEN "rejected"
    ELSE IF calls = <<>> \/ \E k \in DOMAIN calls : calls[k].state = "success"
         THEN "resolved"
         ELSE "pending"

\* (variant: the aggregate resolves once every call has settled)
WhenSettled(calls) ==
    IF \A k \in DOMAIN calls : calls[k].state # "pending"
    THEN "resolved"
    ELSE "pending"

\* $.when(calls): state of the aggregate promise; it rejects with the first
\* failure and resolves when every call has succeeded
When(calls) ==
    IF \E k \in DOMAIN calls : calls[k].state = "error" THEN "rejected"
    ELSE IF \A k \in DOMAIN calls : calls[k].state = "success" THEN "resolved"
         ELSE "pending"

BannerOf(kind, ids) ==
    IF kind = "approve"
    THEN [status |-> "Info!", count |-> Len(ids), level |-> "alert-info"]
    ELSE [status |-> "Attention!", count |-> Len(ids), level |-> "alert-danger"]

\* the .done continuation of batch b: reload the grid, show the banner
Done(b, bs) ==
    /\ batches' = [bs EXCEPT ![b].reloaded = TRUE]
    /\ reloads' = reloads + 1
    /\ reload_pending' = reload_pending + 1
    /\ banner' = BannerOf(bs[b].kind, bs[b].ids)

Dispatch(kind, method, body, entry) ==
    /\ menu_shown
    /\ IF entry \in disabled
       THEN UNCHANGED <<menu_shown, batchVars>>
       ELSE LET b == Len(batches) + 1
                ids == menu_ids
                bs == Append(batches, [kind |-> kind, ids |-> ids,
                                       reloaded |-> FALSE])
            IN /\ Len(requests) + Len(ids) <= MaxRequests
               /\ requests' = requests \o IssueRequests(ids, method, body, b)
               /\ IF When(CallsOf(requests', b)) = "resolved"
                  THEN Done(b, bs)
                  ELSE batches' = bs /\ UNCHANGED <<reloads, banner, reload_pending>>
               /\ menu_shown' = FALSE
    /\ event' = Ev(kind, NoRow, FALSE, FALSE)
    /\ UNCHANGED <<keyVars, renderVars, tableVars, timerVars, selVars, menu_ids, disabled,
                   subVars>>

ContextApprove == Dispatch("approve", "PUT", "status=Approved", "contextApprove")

ContextDelete == Dispatch("delete", "DELETE", "", "contextDelete")

\* request k settles; a success may resolve the aggregate of its batch
Respond(k, outcome) ==
    /\ k \in DOMAIN requests
    /\ requests[k].state = "pending"
    /\ requests' = [requests EXCEPT ![k].state = outcome]
    /\ LET b == requests[k].batch
       IN IF outcome = "success" /\ When(CallsOf(requests', b)) = "resolved"
          THEN Done(b, batches)
          ELSE UNCHANGED <<batches, reloads, banner, reload_pending>>
    /\ event' = Ev("response", NoRow, FALSE, FALSE)
    /\ UNCHANGED <<keyVars, renderVars, tableVars, timerVars, selVars, menuVars,
                   subVars>>

\* DataTable().ajax.reload(): the grid's data is requested again; when the
\* answer arrives the grid is redrawn from it, with new <tr> elements
ReloadSuccess ==
    /\ reload_pending > 0
    /\ reload_pending' = reload_pending - 1
    /\ \E response \in TableResponses : data' = response
    /\ selected' = {}
    /\ child_shown' = {}
    /\ icon_minus' = {}
    /\ dialogs' = Detach(dialogs)
    /\ event' = Ev("reload_success", NoRow, FALSE, FALSE)
    /\ UNCHANGED <<renderVars, table_pending, table_fetches, timerVars,
                   last_selected, menuVars, requests, batches, reloads, banner,
                   globals, subfetches, subgrid, puts>>

\* the reload fails: the grid stays as it is
ReloadError ==
    /\ reload_pending > 0
    /\ reload_pending' = reload_pending - 1
    /\ event' = Ev("reload_error", NoRow, FALSE, FALSE)
    /\ UNCHANGED <<keyVars, renderVars, tableVars, timerVars, selVars, menuVars,
                   requests, batches, reloads, banner, subVars>>

\* ---- the Delete key (lines 293-312)
DeleteKey == 46
OtherKey == 13

\* table.cell(row, ...).data() of a <tr> that is no longer a row of the grid
Undefined == 0

\* var selected = $("#tableBody tbody tr.selected"): the row elements marked
\* at this moment, in document order, each with the id its rowid cell holds
CapturedRows(d, sel) ==
    LET ids == SelectedIds(d, sel)
    IN [k \in DOMAIN ids |-> [id |-> ids[k], attached |-> TRUE]]

\* (variant: the callback looks the selection up again)
ConfirmRowsCurrent(captured, d, sel) == CapturedRows(d, sel)

\* the rows the confirmation callback iterates over: the closure's selected
ConfirmRows(captured, d, sel) == captured

\* id = table.cell($(this), $("td.rowid", this)).data() for each of them
CellIds(rows) ==
    [k \in DOMAIN rows |-> IF rows[k].attached THEN rows[k].id ELSE Undefined]

\* keypress on body: key code 46 with a non-empty selection opens the
\* confirmation, anything else does nothing
KeyPress(keyCode) ==
    /\ IF keyCode = DeleteKey /\ selected # {}
       THEN /\ Len(dialogs) < MaxDialogs
            /\ dialogs' = Append(dialogs, [rows |-> CapturedRows(data, selected),
                                           state |-> "open", batch |-> 0])
       ELSE UNCHANGED dialogs
    /\ event' = [Ev("keypress", NoRow, FALSE, FALSE) EXCEPT !.row = keyCode]
    /\ UNCHANGED <<renderVars, tableVars, timerVars, selVars, menuVars, batchVars,
                   subVars>>

\* the callback of confirmation d, called with the user's answer
Confirm(d, result) ==
    /\ d \in DOMAIN dialogs
    /\ dialogs[d].state = "open"
    /\ IF ~result
       THEN /\ dialogs' = [dialogs EXCEPT ![d].state = "dismissed"]
            /\ UNCHANGED batchVars
       ELSE LET b == Len(batches) + 1
                ids == CellIds(ConfirmRows(dialogs[d].rows, data, selected))
                bs == Append(batches, [kind |-> "keydelete", ids |-> ids,
                                       reloaded |-> FALSE])
            IN /\ Len(requests) + Len(ids) <= MaxRequests
               /\ dialogs' = [dialogs EXCEPT ![d].state = "accepted",
                                             ![d].batch = b]
               /\ requests' = requests \o IssueRequests(ids, "DELETE", "", b)
               /\ IF When(CallsOf(requests', b)) = "resolved"
                  THEN Done(b, bs)
                  ELSE batches' = bs /\ UNCHANGED <<reloads, banner, reload_pending>>
    /\ event' = Ev(IF result THEN "confirm_accept" ELSE "confirm_dismiss",
                   NoRow, FALSE, FALSE)
    /\ UNCHANGED <<renderVars, tableVars, timerVars, selVars, menuVars, subVars>>

\* ---- the column renderers of a sub-table (lines 3-31, 88-101)
\* The job rows a renderer can be handed: the counts and the status string
\* are whatever the server sends.
JobStatuses == {"Failed", "Running", "Rescheduled"}

JobInputs ==
    [id : 1 .. 2, request_id : 1 .. 2, status : JobStatuses,
     reschedule : BOOLEAN, njobs : 0 .. MaxJobs, num_submitted : 0 .. MaxJobs,
     num_running : 0 .. MaxJobs, num_completed : 0 .. MaxJobs,
     num_failed : 0 .. MaxJobs]

\* (variant: only a failed job is shown as rescheduled)
StatusCellFailedOnly(row) ==
    IF row.reschedule /\ row.status = "Failed" THEN "Rescheduled" ELSE row.status

\* render of the "status" column
StatusCell(row) == IF row.reschedule THEN "Rescheduled" ELSE row.status

\* (variant: a rescheduled job gets no glyph)
RescheduleCellUnlessRescheduled(row) ==
    IF row.status = "Failed" /\ ~row.reschedule
    THEN [glyph |-> TRUE, macroid |-> row.id, requestid |-> row.request_id]
    ELSE NoGlyph

\* render of the "reschedule" column: the span with its macroid and requestid
\* attributes, or the empty string
RescheduleCell(row) ==
    IF row.status = "Failed"
    THEN [glyph |-> TRUE, macroid |-> row.id, requestid |-> row.request_id]
    ELSE NoGlyph

\* (variant: the failed jobs are left out of the subtraction)
NumOtherOmitsFailed(job) ==
    job.njobs - (job.num_submitted + job.num_running + job.num_completed)

NumOther(job) ==
    job.njobs - (job.num_submitted + job.num_running + job.num_completed
                 + job.num_failed)

\* 100 * count / njobs, kept as an exact fraction (the script computes it in
\* floating point; a zero denominator is the script's division by zero)
Percent(count, njobs) == [num |-> 100 * count, den |-> njobs]

\* formatprogress(parametricjob): the five bars in document order, each with
\* its width and the number it displays
FormatProgress(job) ==
    LET Bar(class, count) ==
            [class |-> class, width |-> Percent(count, job.njobs),
             label |-> count]
    IN [striped |-> (job.num_running + job.num_submitted > 0),
        segments |-> << Bar("progress-bar-success", job.num_completed),
                        Bar("progress-bar-danger", job.num_failed),
                        Bar("progress-bar-info", job.num_running),
                        Bar("progress-bar-warning", job.num_submitted),
                        Bar("progress-bar", NumOther(job)) >>]

\* the grid renders the cells of one job row
Render ==
    /\ render_row # NoJob
    /\ cells = NoCells
    /\ cells' = [status |-> StatusCell(render_row),
                 reschedule |-> RescheduleCell(render_row),
                 progress |-> FormatProgress(render_row)]
    /\ event' = Ev("render", NoRow, FALSE, FALSE)
    /\ UNCHANGED <<tableVars, timerVars, selVars, menuVars, batchVars, subVars,
                   keyVars, render_row>>

\* ---- sub-tables of parametric jobs (lines 60-104, 113-142)
\* GET /requests/{id}/parametricjobs: the job rows of a request, with the
\* Datatable-Columns header
JobRows(request_id) ==
    {<<>>} \cup
    {<<[id |-> 1, request_id |-> request_id, status |-> st, reschedule |-> rs]>> :
        st \in {"Failed", "Running"}, rs \in BOOLEAN}

HeaderColumns == <<"id", "status", "progress", "reschedule">>

SubResponses(request_id) ==
    {[data |-> rows, columns |-> HeaderColumns] : rows \in JobRows(request_id)}

\* refresh_subtable(request_id): one more GET in flight
RefreshSubtable(fetches, request_id) ==
    Append(fetches, [request_id |-> request_id, state |-> "pending",
                     response |-> <<>>])

\* $(`#subtable-${request_id}`) matches a table only while the child row that
\* holds it is shown (a hidden child row is detached from the document)
ContainerInDocument(request_id) ==
    \E k \in child_shown : data[k + 1] = request_id

\* click on the expand/collapse control of row i.  The control lies in the
\* row, so the row's click handler runs first and the html handler last.
DetailsClick(i, ctrl, shift) ==
    /\ i \in Rows
    /\ selected' = ClickSelected(selected, last_selected, Len(data), i, ctrl, shift)
    /\ last_selected' = i
    /\ icon_minus' = ToggleClass(icon_minus, i)
    /\ IF i \in child_shown
       THEN /\ child_shown' = child_shown \ {i}
            /\ UNCHANGED <<subfetches, subgrid>>
       ELSE /\ Len(subfetches) + Len(SelectSeq(puts, LAMBDA p : p.state = "pending"))
                 < MaxSubFetches
            /\ child_shown' = child_shown \cup {i}
            /\ subgrid' = [subgrid EXCEPT ![data[i + 1]] = NoGrid]
            /\ subfetches' = RefreshSubtable(subfetches, data[i + 1])
    /\ menu_shown' = FALSE
    /\ event' = Ev("details", i, ctrl, shift)
    /\ UNCHANGED <<keyVars, renderVars, tableVars, timerVars, menu_ids, disabled, batchVars, globals,
                   puts>>

\* success callback of refresh_subtable.  Line 76 reads parametricjob, which
\* the script never declares: the read throws unless the page binds the name,
\* and then line 78 is not reached.
SubSuccess(k) ==
    /\ k \in DOMAIN subfetches
    /\ subfetches[k].state = "pending"
    /\ \E response \in SubResponses(subfetches[k].request_id) :
        /\ subfetches' = [subfetches EXCEPT ![k].state = "success",
                                            ![k].response = response.data]
        /\ IF "parametricjob" \in globals
              /\ ContainerInDocument(subfetches[k].request_id)
           THEN subgrid' = [subgrid EXCEPT ![subfetches[k].request_id] =
                               [data |-> response.data,
                                columns |-> response.columns,
                                initialized |-> TRUE]]
           ELSE UNCHANGED subgrid
    /\ event' = Ev("sub_success", NoRow, FALSE, FALSE)
    /\ UNCHANGED <<keyVars, renderVars, tableVars, timerVars, selVars, menuVars, batchVars, globals,
                   child_shown, icon_minus, puts>>

\* error callback of refresh_subtable (and the 400 handler): warnings only
SubError(k) ==
    /\ k \in DOMAIN subfetches
    /\ subfetches[k].state = "pending"
    /\ subfetches' = [subfetches EXCEPT ![k].state = "error"]
    /\ event' = Ev("sub_error", NoRow, FALSE, FALSE)
    /\ UNCHANGED <<keyVars, renderVars, tableVars, timerVars, selVars, menuVars, batchVars, globals,
                   child_shown, icon_minus, subgrid, puts>>

\* the reschedule column of a job row holds a glyph to click on
HasGlyph(job) == RescheduleCell(job).glyph

\* click on the reschedule glyph of job row j of the shown sub-table of
\* request_id (the selection handlers the click bubbles through act on rows
\* of the child table, which are not modelled)
RescheduleClick(request_id, j) ==
    /\ ContainerInDocument(request_id)
    /\ subgrid[request_id].initialized
    /\ j \in DOMAIN subgrid[request_id].data
    /\ HasGlyph(subgrid[request_id].data[j])
    /\ Len(puts) < MaxPuts
    /\ Len(subfetches) + Len(SelectSeq(puts, LAMBDA p : p.state = "pending"))
          < MaxSubFetches
    /\ LET glyph == RescheduleCell(subgrid[request_id].data[j])
       IN puts' = Append(puts, [request_id |-> glyph.requestid,
                                macro_id |-> glyph.macroid,
                                body |-> "reschedule=true",
                                state |-> "pending"])
    /\ menu_shown' = FALSE
    /\ event' = Ev("reschedule", NoRow, FALSE, FALSE)
    /\ UNCHANGED <<keyVars, renderVars, tableVars, timerVars, selVars, menu_ids, disabled, batchVars,
                   globals, child_shown, icon_minus, subfetches, subgrid>>

\* success callback of the reschedule PUT
PutSuccess(k) ==
    /\ k \in DOMAIN puts
    /\ puts[k].state = "pending"
    /\ puts' = [puts EXCEPT ![k].state = "success"]
    /\ subfetches' = RefreshSubtable(subfetches, puts[k].request_id)
    /\ event' = Ev("put_success", NoRow, FALSE, FALSE)
    /\ UNCHANGED <<keyVars, renderVars, tableVars, timerVars, selVars, menuVars, batchVars, globals,
                   child_shown, icon_minus, subgrid>>

\* (variant: a failed PUT refreshes the sub-table as well)
PutErrorRefreshes(k) ==
    /\ k \in DOMAIN puts
    /\ puts[k].state = "pending"
    /\ puts' = [puts EXCEPT ![k].state = "error"]
    /\ subfetches' = RefreshSubtable(subfetches, puts[k].request_id)
    /\ event' = Ev("put_error", NoRow, FALSE, FALSE)
    /\ UNCHANGED <<keyVars, renderVars, tableVars, timerVars, selVars, menuVars,
                   batchVars, globals, child_shown, icon_minus, subgrid>>

\* the reschedule PUT fails: it has no error callback
PutError(k) ==
    /\ k \in DOMAIN puts
    /\ puts[k].state = "pending"
    /\ puts' = [puts EXCEPT ![k].state = "error"]
    /\ event' = Ev("put_error", NoRow, FALSE, FALSE)
    /\ UNCHANGED <<keyVars, renderVars, tableVars, timerVars, selVars, menuVars, batchVars, globals,
                   child_shown, icon_minus, subfetches, subgrid>>

\* ---- specifications
Startup == TableSuccess \/ TableError

Clicks ==
    \E i \in Rows, ctrl \in BOOLEAN, shift \in BOOLEAN : RowClick(i, ctrl, shift)

Selection ==
    \/ Clicks
    \/ \E r \in Rows : ContextMenu(r)
    \/ HtmlClick

MenuEntries ==
    \/ ContextInfo
    \/ ContextEdit
    \/ ContextCopy

Batch ==
    \/ ContextApprove
    \/ ContextDelete
    \/ \E k \in DOMAIN requests, outcome \in {"success", "error"} : Respond(k, outcome)
    \/ ReloadSuccess
    \/ ReloadError

Key ==
    \/ \E keyCode \in {DeleteKey, OtherKey} : KeyPress(keyCode)
    \/ \E d \in DOMAIN dialogs, result \in BOOLEAN : Confirm(d, result)
    \/ \E k \in DOMAIN requests, outcome \in {"success", "error"} : Respond(k, outcome)
    \/ ReloadSuccess
    \/ ReloadError

Subtable ==
    \/ \E i \in Rows, ctrl \in BOOLEAN, shift \in BOOLEAN : DetailsClick(i, ctrl, shift)
    \/ \E k \in DOMAIN subfetches : SubSuccess(k)
    \/ \E k \in DOMAIN subfetches : SubError(k)
    \/ \E id \in RequestIds : \E j \in DOMAIN subgrid[id].data : RescheduleClick(id, j)
    \/ \E k \in DOMAIN puts : PutSuccess(k)
    \/ \E k \in DOMAIN puts : PutError(k)

Next ==
    Startup \/ TimerTick \/ Selection \/ MenuEntries \/ Batch \/ Key \/ Subtable

Spec == Init /\ [][Next]_vars

\* The parts of the script act on separate state, and each is checked with
\* the handlers that read or write its state.
\* startup, timer, row selection and the context menu with its entries:
NextSelection == Startup \/ TimerTick \/ Selection \/ MenuEntries
SpecSelection == Init /\ [][NextSelection]_vars

\* The handlers outside refresh_subtable do not read the script's free
\* identifier: they are checked on a page that does not bind it.
InitUnbound == Init /\ globals = {}

\* row selection, the context menu and the approve/delete batches:
NextBatch == Startup \/ Selection \/ Batch
SpecBatch == InitUnbound /\ [][NextBatch]_vars

\* the expand/collapse controls, the sub-tables and the reschedule glyphs:
NextSubtable == Startup \/ Subtable
SpecSubtable == Init /\ [][NextSubtable]_vars

\* row selection and the Delete key with its confirmation:
NextKey == Startup \/ Clicks \/ Key
SpecKey == InitUnbound /\ [][NextKey]_vars

\* the column renderers, applied to every job row of the input set:
InitRender ==
    /\ Ready
    /\ render_row \in JobInputs
NextRender == Render
SpecRender == InitRender /\ [][NextRender]_vars

\* ---- properties
PlainClick(e) == e.type = "click" /\ ~e.ctrl /\ ~e.shift
ShiftClick(e) == e.type = "click" /\ ~e.ctrl /\ e.shift
CtrlClick(e) == e.type = "click" /\ e.ctrl /\ ~e.shift
Between(i, j) == {k \in Rows : Min(i, j) <= k /\ k <= Max(i, j)}
BatchIds == DOMAIN batches
RequestsOf(b) == {k \in DOMAIN requests : requests[k].batch = b}

\* C1: a plain click on row i followed by a shift-click on row j leaves
\* exactly the rows min(i,j)..max(i,j) selected, for every i and j (i = j
\* included).
C1_ShiftClickSelectsRange ==
    [][(PlainClick(event) /\ ShiftClick(event'))
          => selected' = Between(event.row, event'.row)]_vars

\* C2: after a plain click on row i, from whatever selection, exactly {i} is
\* selected and last_selected is i.
C2_PlainClickSelectsOnlyRow ==
    PlainClick(event) => (selected = {event.row} /\ last_selected = event.row)

\* a plain click on the middle row, made after a right-click had stored the
\* ids of a selection of several rows
C2_Witness ==
    /\ PlainClick(event)
    /\ event.row = 1
    /\ selected = {1}
    /\ Len(menu_ids) > 1

\* C3: a dispatched approve (delete) batch issues exactly one PUT with status
\* Approved (one DELETE) for each id of the stored id list it read, and no
\* request for any other id.
C3_OneRequestPerId ==
    \A b \in BatchIds :
        /\ \A id \in RequestIds :
              Cardinality({k \in RequestsOf(b) : requests[k].id = id})
                 = (IF id \in Range(batches[b].ids) THEN 1 ELSE 0)
        /\ \A k \in RequestsOf(b) :
              /\ requests[k].id \in RequestIds
              /\ IF batches[b].kind = "approve"
                 THEN requests[k].method = "PUT" /\ requests[k].body = "status=Approved"
                 ELSE requests[k].method = "DELETE"

\* a delete batch for two stored ids has been dispatched
C3_Witness ==
    \E b \in BatchIds :
        /\ batches[b].kind = "delete"
        /\ Len(batches[b].ids) = 2
        /\ Cardinality(RequestsOf(b)) = 2

\* C4: the reload and the banner of a batch never happen while a request of
\* that batch is in flight.
C4_ReloadAfterAllSettled ==
    \A b \in BatchIds :
        batches[b].reloaded => \A k \in RequestsOf(b) : requests[k].state # "pending"

\* a batch of two requests has reloaded the grid and shown its banner
C4_Witness ==
    \E b \in BatchIds :
        /\ batches[b].reloaded
        /\ Cardinality(RequestsOf(b)) = 2
        /\ banner # NoBanner
        /\ reloads = 1

\* C5: a batch with a failed request never runs its success continuation (no
\* reload, no banner), and none of its requests is issued again.
C5_FailedBatchNeverReloads ==
    /\ \A b \in BatchIds :
          (\E k \in RequestsOf(b) : requests[k].state = "error")
             => /\ ~batches[b].reloaded
                /\ Cardinality(RequestsOf(b)) = Len(batches[b].ids)
    /\ reloads = Cardinality({b \in BatchIds : batches[b].reloaded})
    /\ (reloads = 0) => (banner = NoBanner)

\* a batch whose requests have all settled, one failed and one succeeded
C5_Witness ==
    \E b \in BatchIds :
        /\ \E k \in RequestsOf(b) : requests[k].state = "error"
        /\ \E k \in RequestsOf(b) : requests[k].state = "success"
        /\ \A k \in RequestsOf(b) : requests[k].state # "pending"
        /\ ~batches[b].reloaded
        /\ banner = NoBanner

\* C6: whenever a GET /requests/{id}/parametricjobs issued by refresh_subtable
\* succeeds, the grid of subtable-{id} is initialized with the returned job
\* rows and the columns of the header.
C6_SubtableInitializedOnSuccess ==
    [][\A k \in DOMAIN subfetches :
          (subfetches[k].state = "pending" /\ subfetches'[k].state = "success")
             => subgrid'[subfetches[k].request_id]
                   = [data |-> subfetches'[k].response,
                      columns |-> HeaderColumns,
                      initialized |-> TRUE]]_vars

C8_CtrlClickTogglesOnlyRow ==
    [][CtrlClick(event')
          => /\ (event'.row \in selected') <=> (event'.row \notin selected)
             /\ selected' \ {event'.row} = selected \ {event'.row}]_vars

\* a ctrl-click has removed the marker of a row while another row keeps its own
C8_Witness ==
    /\ CtrlClick(event)
    /\ event.row \notin selected
    /\ selected # {}

\* C9: a right-click on row r makes {r} the selection if r was not selected
\* and leaves the selection unchanged if it was; the id list stored on the
\* menu is the ids of the rows then selected, and the menu is shown.
C9_ContextMenuSelection ==
    [][event'.type = "contextmenu"
          => /\ (event'.row \notin selected) => (selected' = {event'.row})
             /\ (event'.row \in selected) => (selected' = selected)
             /\ Range(menu_ids') = {data'[k + 1] : k \in selected'}
             /\ Len(menu_ids') = Cardinality(selected')
             /\ menu_shown']_vars

\* a right-click on a row of a selection of two rows, which it kept
C9_Witness ==
    /\ event.type = "contextmenu"
    /\ event.row \in selected
    /\ Cardinality(selected) = 2
    /\ Len(menu_ids) = 2
    /\ menu_shown

\* C10: after every right-click, Info and Copy are disabled if and only if
\* more than one row is selected (so a right-click with one row selected
\* enables them again).
C10_InfoCopyDisabledIffMany ==
    event.type = "contextmenu"
       => /\ ("contextInfo" \in disabled) <=> (Cardinality(selected) > 1)
          /\ ("contextCopy" \in disabled) <=> (Cardinality(selected) > 1)

\* a right-click with several rows selected has disabled both entries
C10_Witness ==
    /\ event.type = "contextmenu"
    /\ Cardinality(selected) > 1
    /\ {"contextInfo", "contextCopy"} \subseteq disabled

\* ---- the column renderers
Rendered == cells # NoCells
SumLabels(segs) ==
    LET F[k \in 0 .. Len(segs)] == IF k = 0 THEN 0 ELSE F[k - 1] + segs[k].label
    IN F[Len(segs)]
SumWidths(segs) ==
    LET F[k \in 0 .. Len(segs)] == IF k = 0 THEN 0 ELSE F[k - 1] + segs[k].width.num
    IN F[Len(segs)]
FourCounts(job) ==
    job.num_submitted + job.num_running + job.num_completed + job.num_failed

\* C11 (as stated): for any status string and any flag, the status cell
\* shows "Rescheduled" if and only if the reschedule flag is true, and the
\* raw status string otherwise.
C11_RescheduledIffFlag ==
    Rendered =>
        /\ (cells.status = "Rescheduled") <=> render_row.reschedule
        /\ ~render_row.reschedule => cells.status = render_row.status

\* C11 (amended): the status cell shows "Rescheduled" whenever the flag is
\* true and the raw status string otherwise, so it shows "Rescheduled"
\* exactly when the flag is true or the raw status is itself "Rescheduled".
C11_RescheduledIffFlagOrStatus ==
    Rendered =>
        /\ render_row.reschedule => cells.status = "Rescheduled"
        /\ ~render_row.reschedule => cells.status = render_row.status
        /\ (cells.status = "Rescheduled") <=>
               (render_row.reschedule \/ render_row.status = "Rescheduled")

C11_Witness ==
    /\ Rendered
    /\ ~render_row.reschedule
    /\ render_row.status = "Rescheduled"
    /\ cells.status = "Rescheduled"

\* C12: the reschedule cell holds a glyph if and only if the status equals
\* "Failed", whatever the reschedule flag, and the glyph carries the row's
\* id and request id.
C12_GlyphIffFailed ==
    Rendered =>
        /\ cells.reschedule.glyph <=> (render_row.status = "Failed")
        /\ cells.reschedule.glyph =>
               /\ cells.reschedule.macroid = render_row.id
               /\ cells.reschedule.requestid = render_row.request_id

C12_Witness ==
    /\ Rendered
    /\ cells.reschedule.glyph
    /\ render_row.reschedule
    /\ cells.reschedule.macroid = 2
    /\ cells.reschedule.requestid = 1

Succeeds(k) ==
    /\ k \in DOMAIN subfetches
    /\ subfetches[k].state = "pending"
    /\ subfetches'[k].state = "success"

\* fetch k was issued before a fetch of the same request id that has
\* already been answered with success
Superseded(k) ==
    \E later \in DOMAIN subfetches :
        /\ later > k
        /\ subfetches[later].request_id = subfetches[k].request_id
        /\ subfetches[later].state = "success"

\* C14: a superseded refresh is not aborted: when the answer of the
\* earlier-issued fetch arrives after the answer of the later one (the child
\* row being shown), its success continuation runs and the child grid ends
\* up showing the earlier fetch's data.
C14_LateAnswerOverwritesGrid ==
    [][\A k \in DOMAIN subfetches :
          (Succeeds(k) /\ Superseded(k)
              /\ ContainerInDocument(subfetches[k].request_id))
          => /\ subgrid'[subfetches[k].request_id].initialized
             /\ subgrid'[subfetches[k].request_id].data = subfetches'[k].response]_vars

\* the glyphs of the sub-tables on the page, as (request id, macro id)
Glyphs ==
    UNION {{<<RescheduleCell(job).requestid, RescheduleCell(job).macroid>> :
               job \in {r \in Range(subgrid[id].data) : HasGlyph(r)}} :
           id \in {i \in RequestIds :
                      ContainerInDocument(i) /\ subgrid[i].initialized}}

PutSettles(k, outcome) ==
    /\ k \in DOMAIN puts
    /\ puts[k].state = "pending"
    /\ puts'[k].state = outcome

\* C15: a click on a reschedule glyph issues exactly one PUT for the glyph's
\* (request id, macro id) with reschedule set and no refresh; a refresh of
\* that request id's sub-table is issued when, and only when, the PUT
\* succeeds; a failed PUT is followed by no refresh and no further PUT.
C15_RefreshIffPutSucceeds ==
    [][/\ event'.type = "reschedule" =>
             /\ Len(puts') = Len(puts) + 1
             /\ SubSeq(puts', 1, Len(puts)) = puts
             /\ <<puts'[Len(puts')].request_id, puts'[Len(puts')].macro_id>> \in Glyphs
             /\ puts'[Len(puts')].body = "reschedule=true"
             /\ puts'[Len(puts')].state = "pending"
             /\ subfetches' = subfetches
       /\ \A k \in DOMAIN puts :
             /\ PutSettles(k, "success") =>
                   /\ subfetches' = RefreshSubtable(subfetches, puts[k].request_id)
                   /\ Len(puts') = Len(puts)
             /\ PutSettles(k, "error") =>
                   /\ subfetches' = subfetches
                   /\ Len(puts') = Len(puts)
       /\ (Len(subfetches') > Len(subfetches) /\ event'.type # "details") =>
             \E k \in DOMAIN puts : PutSettles(k, "success")
       /\ Len(puts') > Len(puts) => event'.type = "reschedule"]_vars

C15_Witness ==
    /\ event.type = "put_success"
    /\ \E k \in DOMAIN puts :
          /\ puts[k].state = "success"
          /\ subfetches[Len(subfetches)] =
                 [request_id |-> puts[k].request_id, state |-> "pending",
                  response |-> <<>>]

\* ---- the id list of a batch
\* a context-menu approve or delete is dispatched in this step
Dispatched ==
    /\ event'.type \in {"approve", "delete"}
    /\ Len(batches') = Len(batches) + 1

\* the id list holds exactly the ids of the rows marked selected
IdsOfSelection(ids) ==
    /\ Range(ids) = {data[k + 1] : k \in selected}
    /\ Len(ids) = Cardinality(selected)

\* C16: when a context-menu approve or delete is dispatched, the ids it
\* sends requests for are the ids of the rows marked selected at that moment,
\* whatever right-clicks, clicks, answers of earlier batches and reloads of
\* the grid came before.
C16_DispatchedIdsAreSelection ==
    [][Dispatched => IdsOfSelection(batches'[Len(batches')].ids)]_vars

\* ---- the detail view
\* the Info entry has just opened the detail view
InfoOpened == event.type = "info" /\ event.fancybox.type = "ajax"

\* C17: whenever the Info entry opens the detail view (the entry is not
\* disabled), the stored id list holds exactly one id.
C17_InfoOpensOneId == InfoOpened => Len(event.fancybox.ids) = 1

C17_Witness ==
    /\ InfoOpened
    /\ Len(data) > 1
    /\ event.fancybox.ids = <<data[2]>>

\* ---- the Delete key
RowIds(rows) == [k \in DOMAIN rows |-> rows[k].id]
NewRequests == (DOMAIN requests') \ (DOMAIN requests)
KeyRequest(k) == batches'[requests'[k].batch].kind = "keydelete"

C19_IconMatchesChild ==
    [][/\ icon_minus = child_shown
       /\ icon_minus' = child_shown'
       /\ event'.type = "details" =>
             IF event'.row \in child_shown
             THEN /\ event'.row \notin child_shown'
                  /\ subfetches' = subfetches
             ELSE /\ event'.row \in child_shown'
                  /\ subfetches' =
                         Append(subfetches, [request_id |-> data[event'.row + 1],
                                             state |-> "pending",
                                             response |-> <<>>])]_vars

C19_Witness ==
    /\ event.type = "details"
    /\ child_shown = {event.row}
    /\ icon_minus = {event.row}
    /\ Len(subfetches) = 2
    /\ subfetches[1].request_id = data[event.row + 1]
    /\ subfetches[2].request_id = data[event.row + 1]
====
